---- MODULE Spec2Model ----
(***************************************************************************)
(* Variable elimination over discrete Bayesian networks: the factor        *)
(* algebra of factor.py and the elimination engine of bayes.py.            *)
(*                                                                         *)
(* Python objects live in `heap`: heap.f holds the Factor objects and      *)
(* heap.n the BayesianNetwork objects, both addressed by their index, so   *)
(* that sharing of Factor objects between networks and in-place updates    *)
(* are expressible.  Table values are Python floats in the source; the     *)
(* model computes with exact non-negative integers, so equalities below    *)
(* are equalities of exact arithmetic (rounding is not modelled).          *)
(* A raised exception is a record whose exc field is the Python class.     *)
(***************************************************************************)
EXTENDS Integers, Sequences, FiniteSets, TLC

VARIABLES heap, bnet, result, loop

vars == <<heap, bnet, result, loop>>

----------------------------------------------------------------------------
(* Bounds of the model *)

\* table values range over 0..MaxVal
MaxVal == 1

\* compute_conditional is called with at most this many event variables
MaxEventVars == 1

\* and at most this many evidence variables
MaxEvidenceVars == 1

\* variable names the networks are built from
Vars == {"A", "B", "C"}

\* the domain registry handed to every network (labels are small integers)
Registry == [A |-> <<0, 1>>, B |-> <<0, 1>>, C |-> <<0>>]

\* labels a caller may put in an event; 2 is in no domain
Labels == {0, 1, 2}

\* scope lists of the networks the collaborator hands over: a chain of two
\* variables, a chain of three, three factors sharing a variable, and a
\* network with a constant factor
Shapes ==
  { << <<"A">>, <<"B", "A">> >>,
    << <<"A", "B">>, <<"B", "C">> >>,
    << <<"C">>, <<"A", "C">>, <<"A">> >>,
    << <<"B">>, <<>> >> }

\* scope lists of the factors the factor operations are tried on
FactorShapes ==
  { << <<"A", "B">> >>,
    << <<"A">>, <<"C", "A">> >>,
    << <<"B">>, <<"B">> >> }

----------------------------------------------------------------------------
(* Helpers *)

Range(s) == {s[i] : i \in 1..Len(s)}

RECURSIVE SumOver(_, _)
SumOver(S, val) ==
  IF S = {} THEN 0
  ELSE LET x == CHOOSE y \in S : TRUE
       IN val[x] + SumOver(S \ {x}, val)

RECURSIVE Perms(_)
Perms(S) ==
  IF S = {} THEN {<<>>}
  ELSE UNION {{<<x>> \o p : p \in Perms(S \ {x})} : x \in S}

\* Python slice s[a:b] with 0-based, clamped bounds
Slice(s, a, b) ==
  LET hi == IF b > Len(s) THEN Len(s) ELSE b
  IN IF a >= hi THEN <<>> ELSE SubSeq(s, a + 1, hi)

Raise(exc, msg) == [exc |-> exc, msg |-> msg]

Return(val) == [exc |-> "", val |-> val]

\* the rest of a function body runs only if the call before it did not raise
Then(r, rest(_)) == IF r.exc # "" THEN r ELSE rest(r)

----------------------------------------------------------------------------
(* factor.py *)

Factor(variables, values) == [variables |-> variables, values |-> values]

\* Factor.__getitem__: the key is built in scope order, the table consulted after
getitem(self, event) ==
  LET n == Len(self.variables)
      missing == {i \in 1..n : self.variables[i] \notin DOMAIN event}
      key == [i \in 1..n |-> event[self.variables[i]]]
  IN IF missing # {}
       THEN Raise("KeyError", "Variable not found in given event.")
     ELSE IF key \in DOMAIN self.values
       THEN Return(self.values[key])
     ELSE Raise("KeyError", "No value assigned to event.")

\* events(vars, domains): every combination of domain values, as dicts
events(vs, domains) ==
  IF \E i \in 1..Len(vs) : vs[i] \notin DOMAIN domains
    THEN Raise("KeyError", "domains")
  ELSE Return({ev \in [Range(vs) -> UNION {Range(domains[v]) : v \in Range(vs)}] :
                 \A v \in Range(vs) : ev[v] \in Range(domains[v])})

\* the slice after the variable starts at the variable
ReducedKeepsValue(event, idx) == Slice(event, 0, idx) \o Slice(event, idx, Len(event))

\* line 48: the key with position idx sliced out
Reduced(event, idx) == Slice(event, 0, idx) \o Slice(event, idx + 1, Len(event))

\* the bucket is assigned instead of added to
AccumulateOverwrites(values, idx) ==
  [k \in {Reduced(event, idx) : event \in DOMAIN values} |->
     values[CHOOSE event \in DOMAIN values : Reduced(event, idx) = k]]

\* lines 45-49: every entry's value is added to the bucket of its reduced key
Accumulate(values, idx) ==
  [k \in {Reduced(event, idx) : event \in DOMAIN values} |->
     SumOver({event \in DOMAIN values : Reduced(event, idx) = k}, values)]

\* list.index: the 0-based position of the first occurrence
Index(s, x) ==
  (CHOOSE i \in 1..Len(s) : s[i] = x /\ \A j \in 1..(i - 1) : s[j] # x) - 1

\* marginalize(f, var)
marginalize(f, var) ==
  IF var \notin Range(f.variables)
    THEN Raise("ValueError", "is not in list")
  ELSE Return(Factor(SelectSeq(f.variables, LAMBDA v : v # var),
                     Accumulate(f.values, Index(f.variables, var))))

\* the scopes of a factor list, one after the other
RECURSIVE Flatten(_)
Flatten(scopes) ==
  IF scopes = <<>> THEN <<>> ELSE Head(scopes) \o Flatten(Tail(scopes))

\* keeps the first occurrence of each variable, as the `not in new_vars` test does
RECURSIVE Dedup(_)
Dedup(s) ==
  IF s = <<>> THEN <<>>
  ELSE LET r == Dedup(SubSeq(s, 1, Len(s) - 1))
       IN IF s[Len(s)] \in Range(r) THEN r ELSE Append(r, s[Len(s)])

\* the first factor alone decides the product
ProdValFirstOnly(factors, ev, prod_val) ==
  IF factors = <<>> THEN Return(prod_val)
  ELSE Then(getitem(Head(factors), ev), LAMBDA x : Return(prod_val * x.val))

\* prod_val of one event: 1.0 times f[ev] for each factor in list order; the
\* first lookup that raises ends the product
RECURSIVE ProdVal(_, _, _)
ProdVal(factors, ev, prod_val) ==
  IF factors = <<>> THEN Return(prod_val)
  ELSE Then(getitem(Head(factors), ev),
            LAMBDA x : ProdVal(Tail(factors), ev, prod_val * x.val))

\* the table multiply_factors fills from the products of all events
NewVals(new_vars, evs, prods) ==
  IF \E ev \in evs : prods[ev].exc # ""
    THEN prods[CHOOSE ev \in evs : prods[ev].exc # ""]
  ELSE Return(Factor(new_vars,
                     [k \in {[i \in 1..Len(new_vars) |-> ev[new_vars[i]]] : ev \in evs} |->
                        prods[CHOOSE ev \in evs :
                                k = [i \in 1..Len(new_vars) |-> ev[new_vars[i]]]].val]))

Products(factors, new_vars, evs) ==
  NewVals(new_vars, evs, [ev \in evs |-> ProdVal(factors, ev, 1)])

ScopeUnion(factors) ==
  Dedup(Flatten([i \in 1..Len(factors) |-> factors[i].variables]))

MultiplyOver(factors, new_vars, domains) ==
  Then(events(new_vars, domains), LAMBDA e : Products(factors, new_vars, e.val))

\* multiply_factors(factors, domains)
multiply_factors(factors, domains) ==
  MultiplyOver(factors, ScopeUnion(factors), domains)

----------------------------------------------------------------------------
(* bayes.py *)

AllocF(h, f) == [h EXCEPT !.f = Append(@, f)]

AllocN(h, net) == [h EXCEPT !.n = Append(@, net)]

\* BayesianNetwork.__init__: the object built from a factor list and a registry
BayesianNetwork(h, factors, domains) ==
  [factors |-> factors,
   domains |-> domains,
   variables |-> UNION {Range(h.f[factors[i]].variables) : i \in 1..Len(factors)}]

FactorsOf(h, fids) == [i \in 1..Len(fids) |-> h.f[fids[i]]]

\* what a call hands back: the heap after it, and a value or an exception
Outcome(h, r) ==
  IF r.exc = "" THEN [heap |-> h, exc |-> "", val |-> r.val]
  ELSE [heap |-> h, exc |-> r.exc, msg |-> r.msg]

WithVar(h, net, variable) ==
  SelectSeq(net.factors, LAMBDA i : variable \in Range(h.f[i].variables))

\* every factor is kept, those mentioning the variable too
WithoutVarKeepsAll(h, net, variable) == net.factors

WithoutVar(h, net, variable) ==
  SelectSeq(net.factors, LAMBDA i : variable \notin Range(h.f[i].variables))

\* the new factor list forgets the factors that did not mention the variable
NewNetworkOnlyReduced(h1, bn, without_var) ==
  AllocN(h1, BayesianNetwork(h1, <<Len(h1.f)>>, h1.n[bn].domains))

\* the network object is given the new factor list and returned
NewNetworkInPlace(h1, bn, without_var) ==
  [h1 EXCEPT !.n[bn] = BayesianNetwork(h1, Append(without_var, Len(h1.f)),
                                        h1.n[bn].domains)]

\* lines 48-49: the new factor list and the network object built from it
NewNetwork(h1, bn, without_var) ==
  AllocN(h1, BayesianNetwork(h1, Append(without_var, Len(h1.f)), h1.n[bn].domains))

Returning(h2) == Outcome(h2, Return(Len(h2.n)))

\* eliminate(bnet, variable): a new network object sharing the untouched factors
eliminate(h, bn, variable) ==
  Then(Outcome(h, multiply_factors(FactorsOf(h, WithVar(h, h.n[bn], variable)),
                                   h.n[bn].domains)),
       LAMBDA product :
         Then(Outcome(h, marginalize(product.val, variable)),
              LAMBDA reduced :
                Returning(NewNetwork(AllocF(h, reduced.val), bn,
                                     WithoutVar(h, h.n[bn], variable)))))

\* the loop of compute_marginal, eliminating in the order the set is iterated
RECURSIVE EliminateAll(_, _, _)
EliminateAll(h, bn, order) ==
  IF order = <<>> THEN Outcome(h, Return(bn))
  ELSE Then(eliminate(h, bn, Head(order)),
            LAMBDA r : EliminateAll(r.heap, r.val, Tail(order)))

\* line 64: the private network object over a copy of the factor list
PrivateCopy(h, bn0) ==
  AllocN(h, BayesianNetwork(h, h.n[bn0].factors, h.n[bn0].domains))

MarginalFrom(h0, bn0, order) ==
  Then(EliminateAll(h0, Len(h0.n), order),
       LAMBDA r : Outcome(r.heap,
                          multiply_factors(FactorsOf(r.heap, r.heap.n[r.val].factors),
                                           r.heap.n[bn0].domains)))

\* compute_marginal(bnet, vars); order is the iteration order of bn.variables - vars
compute_marginal(h, bn0, vs, order) == MarginalFrom(PrivateCopy(h, bn0), bn0, order)

\* the loop runs over every variable of the network
TodoEverything(h, bn, vs) == h.n[bn].variables

\* the loop runs over the variables of the registry
TodoRegistry(h, bn, vs) == (DOMAIN h.n[bn].domains) \ vs

\* line 65: the variables the loop runs over
Todo(h, bn, vs) == h.n[bn].variables \ vs

\* the iteration orders Python may pick for that set
Orders(h, bn0, vs) == Perms(Todo(h, bn0, vs))

\* {**event, **evidence}: evidence wins on a shared key
Merge(event, evidence) == evidence @@ event

\* the quotient is handed back whatever the denominator
DivideUnchecked(h, num, denom) == Outcome(h, Return(<<num, denom>>))

\* line 81: num / denom, the quotient kept as the pair of its terms
Divide(h, num, denom) ==
  IF denom = 0 THEN Outcome(h, Raise("ZeroDivisionError", "float division by zero"))
  ELSE Outcome(h, Return(<<num, denom>>))

\* compute_conditional(bnet, event, evidence)
compute_conditional(h, bn0, event, evidence, o1, o2) ==
  Then(compute_marginal(h, bn0, DOMAIN event \cup DOMAIN evidence, o1),
       LAMBDA joint :
         Then(Outcome(joint.heap, getitem(joint.val, Merge(event, evidence))),
              LAMBDA num :
                Then(compute_marginal(num.heap, bn0, DOMAIN evidence, o2),
                     LAMBDA denom_factor :
                       Then(Outcome(denom_factor.heap, getitem(denom_factor.val, evidence)),
                            LAMBDA denom : Divide(denom.heap, num.val, denom.val)))))

----------------------------------------------------------------------------
(* The networks the engine is handed, and the calls a client makes *)

\* the keys of a full table: one per combination of domain values
Keys(scope, domains) ==
  {k \in [1..Len(scope) -> UNION {Range(domains[v]) : v \in Range(scope)}] :
     \A i \in 1..Len(scope) : k[i] \in Range(domains[scope[i]])}

\* the full tables over a scope
Tables(scope, domains) == [Keys(scope, domains) -> 0..MaxVal]

\* the tables over a scope that may lack entries
PartialTables(scope, domains) ==
  UNION {[K -> 0..MaxVal] : K \in SUBSET Keys(scope, domains)}

FactorLists(shape, tables(_, _)) ==
  {fs \in [1..Len(shape) -> UNION {{Factor(shape[i], t) : t \in tables(shape[i], Registry)} :
                                     i \in 1..Len(shape)}] :
     \A i \in 1..Len(shape) : fs[i].variables = shape[i]}

\* partial assignments of at most n variables
Events(labelsOf(_), n) ==
  UNION {{ev \in [S -> Labels] : \A v \in S : ev[v] \in labelsOf(v)} :
           S \in {T \in SUBSET Vars : Cardinality(T) <= n}}

AnyLabel(v) == Labels

DomainLabel(v) == Range(Registry[v])

\* the caller's view of a call: operation, arguments, and what came back
Call(op, args, r) ==
  IF r.exc = "" THEN [op |-> op, args |-> args, exc |-> "", val |-> r.val]
  ELSE [op |-> op, args |-> args, exc |-> r.exc, msg |-> r.msg]

\* objects allocated during a call and not returned are garbage to the caller
Keep(h, nf, nn) == [f |-> Slice(h.f, 0, nf), n |-> Slice(h.n, 0, nn)]

\* a call into the engine returns: the caller holds what it was handed, and
\* the objects the call allocated for itself are gone
Returns(op, args, r, nf, nn) ==
  /\ heap' = Keep(r.heap, nf, nn)
  /\ result' = Call(op, args, r)

Idle == [pc |-> "idle"]

NoCall == [op |-> "none"]

\* the caller holds one network object over the factors it was built from
Built(fs) ==
  LET h == [f |-> fs, n |-> <<>>]
  IN /\ heap = AllocN(h, BayesianNetwork(h, [i \in 1..Len(fs) |-> i], Registry))
     /\ bnet = 1
     /\ result = NoCall
     /\ loop = Idle

Init == \E shape \in Shapes : \E fs \in FactorLists(shape, Tables) : Built(fs)

InitFactor ==
  \E shape \in FactorShapes : \E fs \in FactorLists(shape, PartialTables) : Built(fs)

Ready == result.op = "none" /\ loop.pc = "idle"

Lookup ==
  /\ Ready
  /\ \E fid \in 1..Len(heap.f) : \E event \in Events(AnyLabel, Cardinality(Vars)) :
       result' = Call("lookup", <<fid, event>>, getitem(heap.f[fid], event))
  /\ UNCHANGED <<heap, bnet, loop>>

Marginalize ==
  /\ Ready
  /\ \E fid \in 1..Len(heap.f) : \E var \in Vars :
       result' = Call("marginalize", <<fid, var>>, marginalize(heap.f[fid], var))
  /\ UNCHANGED <<heap, bnet, loop>>

FactorSeqs(n) ==
  {<<>>} \cup {<<i>> : i \in 1..n} \cup {<<i, j>> : i \in 1..n, j \in 1..n}

MultiplyFactors ==
  /\ Ready
  /\ \E fids \in FactorSeqs(Len(heap.f)) :
       result' = Call("multiply_factors", fids,
                      multiply_factors(FactorsOf(heap, fids), heap.n[bnet].domains))
  /\ UNCHANGED <<heap, bnet, loop>>

Eliminate ==
  /\ Ready
  /\ \E variable \in Vars :
       Returns("eliminate", variable, eliminate(heap, bnet, variable),
               Len(heap.f) + 1, Len(heap.n) + 1)
  /\ UNCHANGED <<bnet, loop>>

ComputeMarginal ==
  /\ Ready
  /\ \E vs \in SUBSET Vars : \E order \in Orders(heap, bnet, vs) :
       Returns("compute_marginal", <<vs, order>>,
               compute_marginal(heap, bnet, vs, order), Len(heap.f), Len(heap.n))
  /\ UNCHANGED <<bnet, loop>>

ComputeConditional ==
  /\ Ready
  /\ \E event \in Events(DomainLabel, MaxEventVars) :
     \E evidence \in Events(DomainLabel, MaxEvidenceVars) :
     \E o1 \in Orders(heap, bnet, DOMAIN event \cup DOMAIN evidence) :
     \E o2 \in Orders(heap, bnet, DOMAIN evidence) :
       Returns("compute_conditional", <<event, evidence>>,
               compute_conditional(heap, bnet, event, evidence, o1, o2),
               Len(heap.f), Len(heap.n))
  /\ UNCHANGED <<bnet, loop>>

\* the caller drops the value it was handed and goes on; what only that value
\* referenced (the network eliminate returned, its new factor) is collected
Discard ==
  /\ result.op # "none"
  /\ result' = NoCall
  /\ heap' = Keep(heap, Len(heap.n[bnet].factors), bnet)
  /\ UNCHANGED <<bnet, loop>>

\* the engine's entry points, called on the caller's network
Next ==
  \/ Eliminate
  \/ ComputeMarginal
  \/ ComputeConditional
  \/ Discard

Spec == Init /\ [][Next]_vars

\* joins, eliminations and marginal queries on the caller's network
NextQuery ==
  \/ MultiplyFactors
  \/ Eliminate
  \/ ComputeMarginal
  \/ Discard

SpecQuery == Init /\ [][NextQuery]_vars

\* the factor operations, on factors whose tables may be incomplete
NextFactor ==
  \/ Lookup
  \/ Marginalize
  \/ MultiplyFactors
  \/ Discard

SpecFactor == InitFactor /\ [][NextFactor]_vars

----------------------------------------------------------------------------
(* compute_marginal statement by statement: loop.bn is the working network, *)
(* loop.todo what the for loop has still to visit                           *)

\* lines 63-64, and the set of line 65 evaluated once
Begin ==
  /\ Ready
  /\ \E vs \in SUBSET Vars :
       /\ heap' = PrivateCopy(heap, bnet)
       /\ loop' = [pc |-> "loop", vars |-> vs, bn |-> Len(heap'.n),
                   todo |-> Todo(heap', Len(heap'.n), vs), eliminated |-> <<>>,
                   nf |-> Len(heap.f), nn |-> Len(heap.n)]
  /\ UNCHANGED <<bnet, result>>

\* an exception leaves compute_marginal: the caller sees it, the loop is gone
Raised(r) ==
  /\ Returns("compute_marginal", <<loop.vars, loop.eliminated>>, r, loop.nf, loop.nn)
  /\ loop' = Idle

\* line 66: bn = eliminate(bn, v)
Rebound(v, r) ==
  /\ heap' = r.heap
  /\ loop' = [loop EXCEPT !.bn = r.val, !.todo = @ \ {v},
                          !.eliminated = Append(@, v)]
  /\ UNCHANGED result

Continue(v, r) == IF r.exc # "" THEN Raised(r) ELSE Rebound(v, r)

\* one iteration of the for loop, the set yielding any variable not yet visited
Step ==
  /\ loop.pc = "loop"
  /\ \E v \in loop.todo : Continue(v, eliminate(heap, loop.bn, v))
  /\ UNCHANGED bnet

\* lines 68-69: the remaining factors are multiplied and the product returned
Finish ==
  /\ loop.pc = "loop"
  /\ loop.todo = {}
  /\ Raised(Outcome(heap, multiply_factors(FactorsOf(heap, heap.n[loop.bn].factors),
                                           heap.n[bnet].domains)))
  /\ UNCHANGED bnet

NextLoop ==
  \/ Begin
  \/ Step
  \/ Finish
  \/ Marginalize
  \/ MultiplyFactors
  \/ Discard

SpecLoop == Init /\ [][NextLoop]_vars

----------------------------------------------------------------------------
(* Vocabulary of the properties *)

\* the full assignments of a set of variables, every value from its domain
Assignments(S) == {ev \in [S -> Labels] : \A v \in S : ev[v] \in Range(Registry[v])}

RECURSIVE ProductOf(_)
ProductOf(nums) == IF nums = <<>> THEN 1 ELSE Head(nums) * ProductOf(Tail(nums))

\* the value of a factor at the projection of a full assignment onto its scope
At(f, ev) == f.values[[i \in 1..Len(f.variables) |-> ev[f.variables[i]]]]

\* the product of a list of factors at a full assignment
JointAt(fs, ev) == ProductOf([i \in 1..Len(fs) |-> At(fs[i], ev)])

\* the sum of the table values of a factor
Mass(f) == SumOver(DOMAIN f.values, f.values)

NoDuplicates(s) == \A i, j \in 1..Len(s) : s[i] = s[j] => i = j

\* one entry per combination of domain values of the scope, and no other
WellFormed(f, domains) ==
  /\ NoDuplicates(f.variables)
  /\ Range(f.variables) \subseteq DOMAIN domains
  /\ DOMAIN f.values = Keys(f.variables, domains)

\* the caller's network as the caller can observe it
Observed(h) ==
  [net |-> h.n[bnet],
   factors |-> [i \in 1..Len(h.n[bnet].factors) |-> h.f[h.n[bnet].factors[i]]]]

Succeeded(op) == result.op = op /\ result.exc = ""

----------------------------------------------------------------------------
(* C7 *)

\* C7: sum_out conserves mass. For a factor f and a variable of its scope, the
\* table values of marginalize(f, var) add up to what the table values of f add
\* up to, and the scope of the result is the scope of f with that variable
\* removed and the others kept in order.
C7_MassConservation ==
  result.op = "marginalize" =>
    LET f == heap.f[result.args[1]]
        var == result.args[2]
    IN var \in Range(f.variables) =>
         /\ result.exc = ""
         /\ Mass(result.val) = Mass(f)
         /\ \E i \in 1..Len(f.variables) :
              /\ f.variables[i] = var
              /\ result.val.variables =
                   SubSeq(f.variables, 1, i - 1) \o SubSeq(f.variables, i + 1, Len(f.variables))

\* two entries of the input were added into one bucket of the result
C7_Witness ==
  /\ Succeeded("marginalize")
  /\ Len(result.val.variables) = 1
  /\ \E k \in DOMAIN result.val.values : result.val.values[k] = 2 * MaxVal
  /\ \E k \in DOMAIN result.val.values : result.val.values[k] = 0

----------------------------------------------------------------------------
(* C5 *)

\* which of the three cases of lookup an event falls in for a factor
LookupCase(f, event) ==
  IF \E i \in 1..Len(f.variables) : f.variables[i] \notin DOMAIN event
    THEN "MissingVariable"
  ELSE IF [i \in 1..Len(f.variables) |-> event[f.variables[i]]] \notin DOMAIN f.values
    THEN "KeyNotFound"
  ELSE "value"

\* the error kind a caller catches: the class of the exception raised
ErrorKind(r) == r.exc

\* C5: lookup has exactly three outcomes the caller can tell apart: it fails
\* with MissingVariable when the event lacks a scope variable, otherwise with
\* the different error kind KeyNotFound when the key is absent from the table,
\* otherwise it returns the table value at the key; the factor is unchanged.
C5_ThreeOutcomes ==
  result.op = "lookup" =>
    LET f == heap.f[result.args[1]]
        case == LookupCase(f, result.args[2])
    IN /\ (case = "value") = (result.exc = "")
       /\ case = "value" => result.val = At(f, result.args[2])
       /\ \A fid \in 1..Len(heap.f) : \A event \in Events(AnyLabel, Cardinality(Vars)) :
            LookupCase(heap.f[fid], event) # case =>
              ErrorKind(getitem(heap.f[fid], event)) # ErrorKind(result)

----------------------------------------------------------------------------
(* C8 *)

\* C8: join commutes. For two well-formed factors a and b and every full
\* assignment E of the union of their scopes, multiply_factors([a, b]) and
\* multiply_factors([b, a]) hold the same value at E, whatever order the two
\* results give their scopes.
C8_JoinCommutes ==
  (result.op = "multiply_factors" /\ Len(result.args) = 2) =>
    LET a == heap.f[result.args[1]]
        b == heap.f[result.args[2]]
        ba == multiply_factors(<<b, a>>, heap.n[bnet].domains)
    IN /\ result.exc = ""
       /\ ba.exc = ""
       /\ \A E \in Assignments(Range(a.variables) \cup Range(b.variables)) :
            getitem(result.val, E) = getitem(ba.val, E)

\* the two joins order their scopes differently and hold a non-zero product
C8_Witness ==
  /\ Succeeded("multiply_factors")
  /\ Len(result.args) = 2
  /\ result.val.variables #
       multiply_factors(<<heap.f[result.args[2]], heap.f[result.args[1]]>>,
                        heap.n[bnet].domains).val.variables
  /\ \E k \in DOMAIN result.val.values : result.val.values[k] > 0
  /\ \E k \in DOMAIN result.val.values : result.val.values[k] = 0

----------------------------------------------------------------------------
(* C1 *)

\* C1: elimination order independence. For a well-formed network and a query
\* set, compute_marginal holds the same value at every full assignment of the
\* query variables whatever the order in which the other variables are
\* eliminated: the returned factor agrees, lookup by lookup, with the factor
\* every other permutation of those variables yields.
C1_OrderIndependence ==
  result.op = "compute_marginal" =>
    /\ result.exc = ""
    /\ \A order \in Orders(heap, bnet, result.args[1]) :
         LET other == compute_marginal(heap, bnet, result.args[1], order)
         IN /\ other.exc = ""
            /\ \A E \in Assignments(result.args[1]) :
                 getitem(other.val, E) = getitem(result.val, E)

\* two variables were eliminated, in an order that had an alternative, and the
\* marginal is not constant
C1_Witness ==
  /\ Succeeded("compute_marginal")
  /\ Len(result.args[2]) >= 2
  /\ Len(result.val.variables) = 1
  /\ \E k \in DOMAIN result.val.values : result.val.values[k] >= 2
  /\ \E k \in DOMAIN result.val.values : result.val.values[k] = 0

----------------------------------------------------------------------------
(* C3 *)

\* C3 as stated: for every network and every set query_vars, the scope of the
\* factor compute_marginal returns is exactly query_vars.
C3_ScopeIsQuery ==
  Succeeded("compute_marginal") => Range(result.val.variables) = result.args[1]

\* C3 amended: the scope of the returned factor is the set of the query
\* variables the network has; it is exactly query_vars for every query set
\* within network.variables. No variable occurs twice in it.
C3_ScopeIsQueryWithinNetwork ==
  result.op = "compute_marginal" =>
    /\ result.exc = ""
    /\ Range(result.val.variables) = result.args[1] \cap heap.n[bnet].variables
    /\ NoDuplicates(result.val.variables)
    /\ result.args[1] \subseteq heap.n[bnet].variables =>
         Range(result.val.variables) = result.args[1]

\* a query for some but not all of the network's variables was answered
C3_Witness ==
  /\ Succeeded("compute_marginal")
  /\ result.args[1] # {}
  /\ result.args[1] \subseteq heap.n[bnet].variables
  /\ result.args[1] # heap.n[bnet].variables
  /\ Range(result.val.variables) = result.args[1]

----------------------------------------------------------------------------
(* C6 *)

\* the sum over the values of variable of the product of the factors fs, at
\* the assignment ev of the other variables
SumProductAt(fs, variable, domains, ev) ==
  SumOver(Range(domains[variable]),
          [x \in Range(domains[variable]) |-> JointAt(fs, (variable :> x) @@ ev)])

\* C6: for a variable v in the scope of at least one factor, eliminate returns
\* a network whose factor list is the factors not mentioning v, in their
\* order, followed by one new factor: the join of the factors mentioning v with
\* v summed out. v is in no scope of the result, whose variables are those of
\* the network without v, and whose domain registry is the network's.
C6_Eliminate ==
  (result.op = "eliminate" /\ result.args \in heap.n[bnet].variables) =>
    /\ result.exc = ""
    /\ LET v == result.args
           old == heap.n[bnet]
           new == heap.n[result.val]
           mentions(i) == \E k \in 1..Len(heap.f[i].variables) : heap.f[i].variables[k] = v
           with == FactorsOf(heap, SelectSeq(old.factors, mentions))
           without == SelectSeq(old.factors, LAMBDA i : ~mentions(i))
           reduced == heap.f[new.factors[Len(new.factors)]]
           scope == SelectSeq(Dedup(Flatten([i \in 1..Len(with) |-> with[i].variables])),
                              LAMBDA u : u # v)
       IN /\ result.val # bnet
          /\ Len(new.factors) = Len(without) + 1
          /\ SubSeq(new.factors, 1, Len(without)) = without
          /\ new.factors[Len(new.factors)] \notin Range(old.factors)
          /\ reduced.variables = scope
          /\ DOMAIN reduced.values = Keys(scope, old.domains)
          /\ \A ev \in Assignments(Range(scope)) :
               At(reduced, ev) = SumProductAt(with, v, old.domains, ev)
          /\ \A i \in 1..Len(new.factors) : v \notin Range(heap.f[new.factors[i]].variables)
          /\ new.variables = old.variables \ {v}
          /\ new.domains = old.domains

\* a variable shared by two factors was eliminated while a third factor was
\* carried over, and the new factor is not constant
C6_Witness ==
  /\ Succeeded("eliminate")
  /\ Len(heap.n[bnet].factors) = 3
  /\ Len(heap.n[result.val].factors) = 2
  /\ LET reduced == heap.f[heap.n[result.val].factors[2]]
     IN /\ reduced.variables # <<>>
        /\ \E k \in DOMAIN reduced.values : reduced.values[k] >= 2

----------------------------------------------------------------------------
(* C2 *)

\* C2: no call of eliminate, compute_marginal or compute_conditional changes
\* the caller's network: across every step its factor list holds the same
\* factors in the same order, each with the same scope and the same table
\* entries, and its domain registry and variable set are the same.
C2_CallerNetworkUntouched == [][Observed(heap') = Observed(heap)]_vars

\* eliminate returned a second network object that shares one factor object
\* with the caller's network and leaves another of its factors out
C2_Witness ==
  /\ Succeeded("eliminate")
  /\ Len(heap.n) = 2
  /\ \E i \in Range(heap.n[bnet].factors) : i \in Range(heap.n[result.val].factors)
  /\ \E i \in Range(heap.n[bnet].factors) : i \notin Range(heap.n[result.val].factors)

----------------------------------------------------------------------------
(* C4 *)

\* the marginal value of the evidence: the mass of the joint distribution of
\* the network on the full assignments that agree with the evidence
EvidenceMass(h, net, evidence) ==
  LET agreeing == {ev \in Assignments(net.variables) :
                     \A v \in DOMAIN evidence \cap net.variables : ev[v] = evidence[v]}
  IN SumOver(agreeing, [ev \in agreeing |-> JointAt(FactorsOf(h, net.factors), ev)])

\* the error kind the division by a zero denominator is reported with
ZeroProbabilityEvidence == "ZeroDivisionError"

\* C4: whenever the marginal value of the evidence is 0, compute_conditional
\* fails with the error kind of zero-probability evidence: it returns no
\* number and reports no other error kind.
C4_ZeroEvidenceRaises ==
  result.op = "compute_conditional" =>
    IF EvidenceMass(heap, heap.n[bnet], result.args[2]) = 0
      THEN /\ result.exc = ZeroProbabilityEvidence
           /\ "val" \notin DOMAIN result
      ELSE /\ result.exc = ""
           /\ result.val[2] = EvidenceMass(heap, heap.n[bnet], result.args[2])

\* evidence of probability zero in a network that is not zero everywhere
C4_Witness ==
  /\ result.op = "compute_conditional"
  /\ result.exc = ZeroProbabilityEvidence
  /\ result.args[2] # <<>>
  /\ DOMAIN result.args[1] # DOMAIN result.args[2]
  /\ EvidenceMass(heap, heap.n[bnet], <<>>) > 0

----------------------------------------------------------------------------
(* C9 *)

\* C9: during compute_marginal the variable eliminated at each step is still
\* in the scope of at least one factor of the working network, so eliminate
\* never multiplies an empty factor list; the loop eliminates each variable of
\* network.variables - query_vars exactly once and the call then returns: the
\* variables already eliminated and those still to visit always partition that
\* set, and the call returns a factor after the whole set was eliminated.
C9_EveryStepHasFactors ==
  /\ loop.pc = "loop" =>
       /\ \A v \in loop.todo : WithVar(heap, heap.n[loop.bn], v) # <<>>
       /\ NoDuplicates(loop.eliminated)
       /\ Range(loop.eliminated) \cap loop.todo = {}
       /\ Range(loop.eliminated) \cup loop.todo = heap.n[bnet].variables \ loop.vars
       /\ heap.n[loop.bn].variables = heap.n[bnet].variables \ Range(loop.eliminated)
  /\ result.op = "compute_marginal" =>
       /\ result.exc = ""
       /\ NoDuplicates(result.args[2])
       /\ Range(result.args[2]) = heap.n[bnet].variables \ result.args[1]

\* in the middle of the loop: one variable eliminated, another still to come
C9_Witness ==
  /\ loop.pc = "loop"
  /\ Len(loop.eliminated) = 1
  /\ Cardinality(loop.todo) = 2
  /\ Len(heap.n[loop.bn].factors) = 1

----------------------------------------------------------------------------
(* C10 *)

\* C10: the engine preserves well-formedness. From a network of well-formed
\* factors, after any number of elimination steps every factor of the working
\* network has exactly one table entry per combination of domain values of its
\* scope, and so have the factors multiply_factors, marginalize and
\* compute_marginal return.
C10_WellFormedPreserved ==
  /\ \A i \in 1..Len(heap.f) : WellFormed(heap.f[i], heap.n[bnet].domains)
  /\ loop.pc = "loop" =>
       \A i \in Range(heap.n[loop.bn].factors) :
         WellFormed(heap.f[i], heap.n[bnet].domains)
  /\ result.op \in {"multiply_factors", "compute_marginal"} =>
       result.exc = "" /\ WellFormed(result.val, heap.n[bnet].domains)
  /\ Succeeded("marginalize") => WellFormed(result.val, heap.n[bnet].domains)

\* the working network after two eliminations holds a factor the engine made
\* over a variable still to be kept
C10_Witness ==
  /\ loop.pc = "loop"
  /\ Len(loop.eliminated) = 2
  /\ \E i \in Range(heap.n[loop.bn].factors) :
       /\ i \notin Range(heap.n[bnet].factors)
       /\ heap.f[i].variables # <<>>

====
